---------------------------- MODULE Spec2Model ----------------------------
(***************************************************************************)
(* A model of abcd::TxDatabase (src/abcd/bitcoin/TxDatabase.cpp): the      *)
(* in-memory transaction cache of the wallet, its ntxid clustering, its    *)
(* double-spend filter, its fork detector and its snapshot format.         *)
(*                                                                         *)
(* Hash digests are modelled by small numbers (the index of the hashed     *)
(* transaction in the table HashPreimage); on the wire a digest is HashLen *)
(* bytes whose first byte is that number.  The iteration order of the      *)
(* std::unordered_map rows_ is unspecified, so every loop over rows_ runs  *)
(* in an order chosen nondeterministically among the permutations of keys. *)
(***************************************************************************)
EXTENDS Integers, Sequences, FiniteSets, TLC

VARIABLES
    rows_,          \* TxDatabase::rows_ : txid -> TxRow
    last_height_,   \* TxDatabase::last_height_
    now,            \* the wall clock read by time(nullptr)
    disk,           \* the blob most recently returned by serialize()
    last,           \* the most recent call: [op, txid, arg, ret]
    mutex_,         \* TxDatabase::mutex_ : 0 when free, else the thread holding it
    threads         \* the position of each calling thread inside its call

vars == <<rows_, last_height_, now, disk, last, mutex_, threads>>

(***************************************************************************)
(* Bounds of the model.                                                    *)
(***************************************************************************)
\* confirmed() and at_height() are called with heights 1..MaxHeight
MaxHeight == 2
\* the clock starts here and advances TickSeconds at a time, MaxTicks times
StartTime == 1000
TickSeconds == 60
MaxTicks == 2
\* the constructor argument unconfirmed_timeout
unconfirmed_timeout_ == 60

(***************************************************************************)
(* Transactions.  A script is a byte string; an input script is            *)
(* <<signature, address>> and an output script is <<address>>.             *)
(***************************************************************************)
AddrX == 1
AddrY == 2
AddrZ == 3

TxIn(h, i, script) == [previous_output |-> [hash |-> h, index |-> i], script |-> script]
TxOut(v, script) == [value |-> v, script |-> script]

\* A pays 100 to X.
TxA == [inputs |-> <<>>, outputs |-> <<TxOut(100, <<AddrX>>)>>]
\* M1..M4 spend A:0 and differ only in the signature: one ntxid cluster.
TxM1 == [inputs |-> <<TxIn(1, 0, <<1, AddrX>>)>>, outputs |-> <<TxOut(90, <<AddrX>>)>>]
TxM2 == [inputs |-> <<TxIn(1, 0, <<2, AddrX>>)>>, outputs |-> <<TxOut(90, <<AddrX>>)>>]
TxM3 == [inputs |-> <<TxIn(1, 0, <<3, AddrX>>)>>, outputs |-> <<TxOut(90, <<AddrX>>)>>]
TxM4 == [inputs |-> <<TxIn(1, 0, <<4, AddrX>>)>>, outputs |-> <<TxOut(90, <<AddrX>>)>>]
\* B2 spends A:0 as well, paying somebody else: a double spend of A:0.
TxB2 == [inputs |-> <<TxIn(1, 0, <<1, AddrZ>>)>>, outputs |-> <<TxOut(100, <<AddrY>>)>>]
\* C spends M1:0 and pays X and Y.
TxC == [inputs |-> <<TxIn(2, 0, <<1, AddrX>>)>>,
        outputs |-> <<TxOut(80, <<AddrX>>), TxOut(10, <<AddrY>>)>>]

\* bc::extract: the payment address of a script, 0 when it has none
extract(script) ==
    IF Len(script) >= 1 /\ script[Len(script)] \in {AddrX, AddrY, AddrZ}
    THEN script[Len(script)] ELSE 0

\* the transaction with every input script blanked
StripScripts(tx) ==
    [tx EXCEPT !.inputs = [i \in DOMAIN tx.inputs |-> [tx.inputs[i] EXCEPT !.script = <<>>]]]

\* the table of hashed values: entry k hashes to k
HashPreimage ==
    <<TxA, TxM1, TxM2, TxM3, TxM4, TxB2, TxC,
      StripScripts(TxM1), StripScripts(TxB2), StripScripts(TxC)>>

\* bc::hash_transaction
hash_transaction(tx) == CHOOSE k \in DOMAIN HashPreimage : HashPreimage[k] = tx

\* makeNtxid: the hash of the transaction with its input scripts blanked
makeNtxid(tx) == hash_transaction(StripScripts(tx))

(***************************************************************************)
(* Rows.                                                                   *)
(***************************************************************************)
\* aggregate initialisation TxRow{...}: the members in declaration order
TxRow(tx, txid, ntxid, state, block_height, timestamp, bMalleated, bMasterConfirm, need_check) ==
    [tx |-> tx, txid |-> txid, ntxid |-> ntxid, state |-> state,
     block_height |-> block_height, timestamp |-> timestamp,
     bMalleated |-> bMalleated, bMasterConfirm |-> bMasterConfirm,
     need_check |-> need_check]

NoRows == [k \in {} |-> 0]

RECURSIVE Perms(_)
\* the sequences that enumerate the set S once each
Perms(S) ==
    IF S = {} THEN {<<>>}
    ELSE UNION {{<<x>> \o p : p \in Perms(S \ {x})} : x \in S}

\* the orders in which a loop "for (auto &row: rows_)" can visit the rows
ScanOrders(rws) == Perms(DOMAIN rws)

\* TxDatabase::ntxidLookupAll: the keys of the rows with this ntxid, in scan
\* order (the vector of pointers into rows_)
ntxidLookupAll(rws, order, ntxid) ==
    SelectSeq(order, LAMBDA k : rws[k].ntxid = ntxid)

\* a mutation of ntxidLookupAllResults: the test of line 657 is dropped and
\* every row is returned
ntxidLookupAllResults_AllRows(rws, ntxid) == Perms(DOMAIN rws)

\* the vectors ntxidLookupAll can return, over every scan order of rows_:
\* { ntxidLookupAll(rws, o, ntxid) : o \in ScanOrders(rws) }
ntxidLookupAllResults(rws, ntxid) ==
    Perms({k \in DOMAIN rws : rws[k].ntxid = ntxid})

\* a size_t compared with a long long: the long long converts to unsigned,
\* so a negative value is above every non-negative one
ULess(a, b) ==
    IF a < 0 THEN b < 0 /\ a < b
    ELSE IF b < 0 THEN TRUE ELSE a < b

\* the threads that call the database
Threads == {1, 2}

\* a thread that is in no call
Idle == [pc |-> "idle", op |-> "none", txid |-> 0, arg |-> 0,
         txRows |-> <<>>, n |-> 0, entry |-> NoRows]

\* the rows as a loop "for (auto row: rows_)" marks them: row is a copy
check_fork_marked(rws, height) ==
    LET conf == {k \in DOMAIN rws : rws[k].state = "confirmed"}
        below == {rws[k].block_height : k \in {c \in conf : ULess(rws[c].block_height, height)}}
        prev_height == IF below = {} THEN 0
                       ELSE CHOOSE m \in below : \A x \in below : x = m \/ ULess(x, m)
    IN [k \in DOMAIN rws |->
          IF rws[k].state = "confirmed" /\ rws[k].block_height = prev_height
          THEN [rws[k] EXCEPT !.need_check = TRUE] ELSE rws[k]]

\* TxDatabase::check_fork: need_check is set on the loop's copy of each row
\* ("for (auto row: rows_)"), the copies go out of scope and rows_ is left
\* as it was
check_fork(rws, height) ==
    LET copies == check_fork_marked(rws, height)
    IN rws

\* TxDatabase::txidExists
txidExists(rws, txid) == txid \in DOMAIN rws

\* TxDatabase::ntxidExists
ntxidExists(rws, order, ntxid) == ntxidLookupAll(rws, order, ntxid) # <<>>

(***************************************************************************)
(* insert                                                                  *)
(***************************************************************************)
\* a mutation of InsertMarkSibling: the sibling is not marked
InsertMarkSibling_Unmarked(row) == row

\* line 483: bMalleated = (*i)->bMalleated = true
InsertMarkSibling(row) == [row EXCEPT !.bMalleated = TRUE]

\* a mutation of InsertStep: the sibling's state is not copied
InsertStep_HeightOnly(acc, i) ==
    [rows |-> [acc.rows EXCEPT ![i] = InsertMarkSibling(@)],
     height |-> acc.rows[i].block_height,
     state |-> acc.state,
     bMalleated |-> InsertMarkSibling(acc.rows[i]).bMalleated]

\* lines 481-483: one sibling seen by the loop of insert;
\* acc = [rows, height, state, bMalleated]
InsertStep(acc, i) ==
    [rows |-> [acc.rows EXCEPT ![i] = InsertMarkSibling(@)],
     height |-> acc.rows[i].block_height,
     state |-> acc.rows[i].state,
     bMalleated |-> InsertMarkSibling(acc.rows[i]).bMalleated]

RECURSIVE InsertLoop(_, _, _, _)
\* lines 477-485: the loop of insert over txRows
InsertLoop(acc, txRows, n, txid) ==
    IF n > Len(txRows) THEN acc
    ELSE LET i == txRows[n]
         IN IF txid # acc.rows[i].txid
            THEN InsertLoop(InsertStep(acc, i), txRows, n + 1, txid)
            ELSE InsertLoop(acc, txRows, n + 1, txid)

\* a mutation of InsertIsNew: insert stomps an existing row
InsertIsNew_Always(rws, txid) == TRUE

\* line 465: rows_.find(txid) == rows_.end()
InsertIsNew(rws, txid) == txid \notin DOMAIN rws

\* the rows after insert(tx) finds no row of tx's txid
InsertRows(rws, txRows, tx, t) ==
    LET ntxid == makeNtxid(tx)
        txid == hash_transaction(tx)
        acc == InsertLoop([rows |-> rws, height |-> 0, state |-> "unconfirmed",
                           bMalleated |-> FALSE], txRows, 1, txid)
    IN (txid :> TxRow(tx, txid, ntxid, acc.state, acc.height, t,
                      acc.bMalleated, FALSE, FALSE)) @@ acc.rows

Insert(tx) ==
    LET txid == hash_transaction(tx)
    IN /\ IF InsertIsNew(rows_, txid)
          THEN \E txRows \in ntxidLookupAllResults(rows_, makeNtxid(tx)) :
                 /\ rows_' = InsertRows(rows_, txRows, tx, now)
                 /\ last' = [op |-> "insert", txid |-> txid, arg |-> 0, ret |-> TRUE]
          ELSE /\ rows_' = rows_
               /\ last' = [op |-> "insert", txid |-> txid, arg |-> 0, ret |-> FALSE]
       /\ UNCHANGED <<last_height_, now, disk, mutex_, threads>>

(***************************************************************************)
(* confirmed                                                               *)
(***************************************************************************)
\* lines 532-534: the row named by txid
ConfirmedPrimary(row, block_height) ==
    [row EXCEPT !.state = "confirmed", !.block_height = block_height,
                !.bMasterConfirm = TRUE]

\* a mutation of ConfirmedSibling: the sibling's state is left as it was
ConfirmedSibling_HeightOnly(row, block_height) ==
    [row EXCEPT !.block_height = block_height, !.bMalleated = TRUE]

\* lines 540-542: a sibling
ConfirmedSibling(row, block_height) ==
    [row EXCEPT !.block_height = block_height, !.state = "confirmed",
                !.bMalleated = TRUE]

RECURSIVE ConfirmedLoop(_, _, _, _, _)
ConfirmedLoop(rws, txRows, n, txid, block_height) ==
    IF n > Len(txRows) THEN rws
    ELSE LET i == txRows[n]
         IN IF txid # rws[i].txid
            THEN ConfirmedLoop([rws EXCEPT ![i] = ConfirmedSibling(@, block_height),
                                           ![txid].bMalleated = TRUE],
                               txRows, n + 1, txid, block_height)
            ELSE ConfirmedLoop(rws, txRows, n + 1, txid, block_height)

ConfirmedRows(rws, txRows, txid, block_height) ==
    LET row == rws[txid]
        r0 == IF row.state = "confirmed" /\ row.block_height # block_height
              THEN check_fork(rws, row.block_height) ELSE rws
        r1 == [r0 EXCEPT ![txid] = ConfirmedPrimary(@, block_height)]
    IN ConfirmedLoop(r1, txRows, 1, txid, block_height)

Confirmed(txid, block_height) ==
    /\ txid \in DOMAIN rows_
    /\ \E txRows \in ntxidLookupAllResults(rows_, rows_[txid].ntxid) :
         rows_' = ConfirmedRows(rows_, txRows, txid, block_height)
    /\ last' = [op |-> "confirmed", txid |-> txid, arg |-> block_height, ret |-> TRUE]
    /\ UNCHANGED <<last_height_, now, disk, mutex_, threads>>

(***************************************************************************)
(* unconfirmed                                                             *)
(***************************************************************************)
\* a mutation of UnconfirmedSibling: the sibling's state is left as it was
UnconfirmedSibling_KeepsState(row) ==
    [row EXCEPT !.block_height = -1, !.bMalleated = TRUE]

\* lines 587-589: a sibling without bMasterConfirm
UnconfirmedSibling(row) ==
    [row EXCEPT !.block_height = -1, !.state = "unconfirmed", !.bMalleated = TRUE]

RECURSIVE UnconfirmedLoop(_, _, _, _)
\* the loop of unconfirmed; acc = [rows, height, state, bMalleated]
UnconfirmedLoop(acc, txRows, n, txid) ==
    IF n > Len(txRows) THEN acc
    ELSE LET i == txRows[n]
         IN IF txid # acc.rows[i].txid
            THEN IF acc.rows[i].bMasterConfirm
                 THEN UnconfirmedLoop([acc EXCEPT !.height = acc.rows[i].block_height,
                                                  !.state = acc.rows[i].state],
                                      txRows, n + 1, txid)
                 ELSE UnconfirmedLoop([acc EXCEPT !.rows[i] = UnconfirmedSibling(@),
                                                  !.height = -1,
                                                  !.bMalleated = TRUE],
                                      txRows, n + 1, txid)
            ELSE UnconfirmedLoop(acc, txRows, n + 1, txid)

UnconfirmedRows(rws, txRows, txid) ==
    LET row == rws[txid]
        acc0 == [rows |-> rws, height |-> 0, state |-> "unconfirmed",
                 bMalleated |-> row.bMalleated]
        acc1 == IF row.state = "confirmed"
                THEN LET a == UnconfirmedLoop(acc0, txRows, 1, txid)
                     IN IF a.rows[txid].state = "unconfirmed"
                        THEN [a EXCEPT !.rows = check_fork(a.rows, a.rows[txid].block_height)]
                        ELSE a
                ELSE acc0
    IN [acc1.rows EXCEPT ![txid].block_height = acc1.height,
                         ![txid].state = acc1.state,
                         ![txid].bMalleated = acc1.bMalleated]

Unconfirmed(txid) ==
    /\ txid \in DOMAIN rows_
    /\ \E txRows \in ntxidLookupAllResults(rows_, rows_[txid].ntxid) :
         rows_' = UnconfirmedRows(rows_, txRows, txid)
    /\ last' = [op |-> "unconfirmed", txid |-> txid, arg |-> 0, ret |-> TRUE]
    /\ UNCHANGED <<last_height_, now, disk, mutex_, threads>>

(***************************************************************************)
(* at_height, foreach_unconfirmed, foreach_forked                          *)
(***************************************************************************)
AtHeight(height) ==
    /\ last_height_' = height
    /\ rows_' = check_fork(rows_, height)
    /\ last' = [op |-> "at_height", txid |-> 0, arg |-> height, ret |-> TRUE]
    /\ UNCHANGED <<now, disk, mutex_, threads>>

\* the txids foreach_unconfirmed passes to f, in scan order
foreach_unconfirmed(rws, order) ==
    SelectSeq(order, LAMBDA k : rws[k].state # "confirmed")

\* the txids foreach_forked passes to f, in scan order
foreach_forked(rws, order) ==
    SelectSeq(order, LAMBDA k : rws[k].state = "confirmed" /\ rws[k].need_check)

ForeachUnconfirmed ==
    /\ \E order \in ScanOrders(rows_) :
         last' = [op |-> "foreach_unconfirmed", txid |-> 0, arg |-> 0,
                  ret |-> foreach_unconfirmed(rows_, order)]
    /\ UNCHANGED <<rows_, last_height_, now, disk, mutex_, threads>>

ForeachForked ==
    /\ \E order \in ScanOrders(rows_) :
         last' = [op |-> "foreach_forked", txid |-> 0, arg |-> 0,
                  ret |-> foreach_forked(rows_, order)]
    /\ UNCHANGED <<rows_, last_height_, now, disk, mutex_, threads>>

(***************************************************************************)
(* ntxidLookup and ntxidHeight                                             *)
(***************************************************************************)
\* bc::transaction_type(): a default-constructed transaction
NoTx == [inputs |-> <<>>, outputs |-> <<>>]

RECURSIVE NtxidLookupLoop(_, _, _, _, _)
\* lines 177-197: the loop of ntxidLookup over txRows, tx and foundTx being
\* its locals; the result is the transaction returned
NtxidLookupLoop(rws, txRows, n, tx, foundTx) ==
    IF n > Len(txRows) THEN tx
    ELSE LET row == rws[txRows[n]]
             tx1 == IF ~foundTx THEN row.tx
                    ELSE IF row.state = "confirmed" THEN row.tx ELSE tx
         IN IF row.bMasterConfirm THEN tx1
            ELSE NtxidLookupLoop(rws, txRows, n + 1, tx1, TRUE)

\* TxDatabase::ntxidLookup, txRows being what ntxidLookupAll returned
ntxidLookup(rws, txRows) == NtxidLookupLoop(rws, txRows, 1, NoTx, FALSE)

NtxidLookup(ntxid) ==
    /\ \E txRows \in ntxidLookupAllResults(rows_, ntxid) :
         last' = [op |-> "ntxid_lookup", txid |-> 0, arg |-> ntxid,
                  ret |-> ntxidLookup(rows_, txRows)]
    /\ UNCHANGED <<rows_, last_height_, now, disk, mutex_, threads>>

RECURSIVE NtxidHeightLoop(_, _, _, _)
\* lines 226-233: the greatest block_height of a confirmed row, from 0
NtxidHeightLoop(rws, txRows, n, height) ==
    IF n > Len(txRows) THEN height
    ELSE LET row == rws[txRows[n]]
         IN NtxidHeightLoop(rws, txRows, n + 1,
                IF row.state = "confirmed" /\ height < row.block_height
                THEN row.block_height ELSE height)

\* a mutation of NtxidHeightSignal: no signal for a malleated cluster
NtxidHeightSignal_None(size, height) == height

\* lines 237-240: -1 tells the GUI "malleated and unconfirmed"
NtxidHeightSignal(size, height) ==
    IF 1 < size /\ height = 0 THEN -1 ELSE height

\* TxDatabase::ntxidHeight; [status, result], result being assigned on
\* success only
ntxidHeight(rws, txRows) ==
    IF txRows = <<>>
    THEN [status |-> [code |-> "ABC_CC_Synchronizing",
                      msg |-> "tx isn't in the database"]]
    ELSE [status |-> [code |-> "ABC_CC_Ok", msg |-> ""],
          result |-> NtxidHeightSignal(Len(txRows),
                                       NtxidHeightLoop(rws, txRows, 1, 0))]

NtxidHeight(ntxid) ==
    /\ \E txRows \in ntxidLookupAllResults(rows_, ntxid) :
         last' = [op |-> "ntxid_height", txid |-> 0, arg |-> ntxid,
                  ret |-> ntxidHeight(rows_, txRows)]
    /\ UNCHANGED <<rows_, last_height_, now, disk, mutex_, threads>>

(***************************************************************************)
(* get_utxos and TxFilter                                                  *)
(***************************************************************************)
RECURSIVE SpendsInputs(_, _, _)
\* lines 274-278 over the inputs of one row; acc = [spends, doubleSpends]
SpendsInputs(acc, inputs, n) ==
    IF n > Len(inputs) THEN acc
    ELSE LET p == inputs[n].previous_output
         IN SpendsInputs(
                IF p \in acc.spends
                THEN [acc EXCEPT !.doubleSpends = @ \cup {p}]
                ELSE [acc EXCEPT !.spends = @ \cup {p}],
                inputs, n + 1)

RECURSIVE SpendsRows(_, _, _, _)
\* lines 272-279: the list of spends and of double spends
SpendsRows(acc, rws, order, n) ==
    IF n > Len(order) THEN acc
    ELSE SpendsRows(SpendsInputs(acc, rws[order[n]].tx.inputs, 1), rws, order, n + 1)

\* a mutation of IsDoubleSpend: the double-spend list is never consulted
IsDoubleSpend_Never(doubleSpends, point) == FALSE

\* line 111: doubleSpends_.count(input.previous_output)
IsDoubleSpend(doubleSpends, point) == point \in doubleSpends

\* a mutation of MemoStore: the memo table records every visit as safe
MemoStore_Safe(visited, txid, ret) == (txid :> TRUE) @@ visited

\* lines 102, 106, 112, 114, 116: visited_[txid] = ret
MemoStore(visited, txid, ret) == (txid :> ret) @@ visited

RECURSIVE isSafe(_, _, _, _, _)
RECURSIVE isSafeInputs(_, _, _, _, _, _)
\* TxFilter::isSafe with its memo table visited_; the result is
\* [ret, visited, overflow].  stack holds the txids whose call is in
\* progress: the memo is written on return only, so a call that reaches a
\* txid in progress recurses without end (overflow)
isSafe(rws, doubleSpends, txid, visited, stack) ==
    IF txid \in DOMAIN visited
    THEN [ret |-> visited[txid], visited |-> visited, overflow |-> FALSE]
    ELSE IF txid \notin DOMAIN rws
    THEN [ret |-> TRUE, visited |-> MemoStore(visited, txid, TRUE), overflow |-> FALSE]
    ELSE IF rws[txid].state = "confirmed"
    THEN [ret |-> TRUE, visited |-> MemoStore(visited, txid, TRUE), overflow |-> FALSE]
    ELSE IF txid \in stack
    THEN [ret |-> FALSE, visited |-> visited, overflow |-> TRUE]
    ELSE LET r == isSafeInputs(rws, doubleSpends, rws[txid].tx.inputs, 1,
                               visited, stack \cup {txid})
         IN IF r.overflow THEN r
            ELSE [ret |-> r.ret, visited |-> MemoStore(r.visited, txid, r.ret),
                  overflow |-> FALSE]

\* lines 109-116: the loop of isSafe over the inputs
isSafeInputs(rws, doubleSpends, inputs, n, visited, stack) ==
    IF n > Len(inputs)
    THEN [ret |-> TRUE, visited |-> visited, overflow |-> FALSE]
    ELSE IF IsDoubleSpend(doubleSpends, inputs[n].previous_output)
    THEN [ret |-> FALSE, visited |-> visited, overflow |-> FALSE]
    ELSE LET r == isSafe(rws, doubleSpends, inputs[n].previous_output.hash,
                         visited, stack)
         IN IF r.overflow THEN r
            ELSE IF ~r.ret
            THEN [ret |-> FALSE, visited |-> r.visited, overflow |-> FALSE]
            ELSE isSafeInputs(rws, doubleSpends, inputs, n + 1, r.visited, stack)

\* lines 71-81: with filter, an unconfirmed row passes only if every input
\* script has an address of ours
checkIsChange(row, addresses, filter) ==
    (filter /\ row.state # "confirmed")
        => \A n \in DOMAIN row.tx.inputs :
              /\ extract(row.tx.inputs[n].script) # 0
              /\ extract(row.tx.inputs[n].script) \in addresses

\* TxFilter::check; the result is [ret, visited, overflow]
check(rws, doubleSpends, addresses, txid, row, filter, visited) ==
    IF ~checkIsChange(row, addresses, filter)
    THEN [ret |-> FALSE, visited |-> visited, overflow |-> FALSE]
    ELSE isSafe(rws, doubleSpends, txid, visited, {})

\* a mutation of IsUnspent: spent outputs are reported too
IsUnspent_Always(spends, point) == TRUE

\* line 295: !spends.count(point)
IsUnspent(spends, point) == point \notin spends

RECURSIVE UtxoOutputs(_, _, _, _, _, _, _, _)
\* lines 287-303 for the row stored under key; acc = [out, visited, overflow]
UtxoOutputs(acc, rws, sp, addresses, filter, key, i, row) ==
    IF acc.overflow \/ i >= Len(row.tx.outputs) THEN acc
    ELSE LET point == [hash |-> key, index |-> i]
             output == row.tx.outputs[i + 1]
             address == extract(output.script)
         IN IF IsUnspent(sp.spends, point) /\ address # 0 /\ address \in addresses
            THEN LET c == check(rws, sp.doubleSpends, addresses, key, row, filter,
                                acc.visited)
                 IN UtxoOutputs(
                        [out |-> IF c.ret /\ ~c.overflow
                                 THEN Append(acc.out, [point |-> point, value |-> output.value])
                                 ELSE acc.out,
                         visited |-> c.visited,
                         overflow |-> c.overflow],
                        rws, sp, addresses, filter, key, i + 1, row)
            ELSE UtxoOutputs(acc, rws, sp, addresses, filter, key, i + 1, row)

RECURSIVE UtxoRows(_, _, _, _, _, _, _)
\* lines 285-304: the loop of get_utxos over the rows
UtxoRows(acc, rws, sp, addresses, filter, order, n) ==
    IF acc.overflow \/ n > Len(order) THEN acc
    ELSE UtxoRows(UtxoOutputs(acc, rws, sp, addresses, filter, order[n], 0,
                              rws[order[n]]),
                  rws, sp, addresses, filter, order, n + 1)

\* TxDatabase::get_utxos; the result is [out, visited, overflow]
get_utxos(rws, order, addresses, filter) ==
    LET sp == SpendsRows([spends |-> {}, doubleSpends |-> {}], rws, order, 1)
    IN UtxoRows([out |-> <<>>, visited |-> NoRows, overflow |-> FALSE],
                rws, sp, addresses, filter, order, 1)

GetUtxos(addresses, filter) ==
    /\ \E order \in ScanOrders(rows_) :
         LET r == get_utxos(rows_, order, addresses, filter)
         IN last' = [op |-> "get_utxos", txid |-> 0,
                     arg |-> [addresses |-> addresses, filter |-> filter],
                     ret |-> [out |-> r.out, overflow |-> r.overflow]]
    /\ UNCHANGED <<rows_, last_height_, now, disk, mutex_, threads>>

(***************************************************************************)
(* clear, reset_timestamp and the clock                                    *)
(***************************************************************************)
Clear ==
    /\ last_height_' = 0
    /\ rows_' = NoRows
    /\ last' = [op |-> "clear", txid |-> 0, arg |-> 0, ret |-> TRUE]
    /\ UNCHANGED <<now, disk, mutex_, threads>>

ResetTimestamp(txid) ==
    /\ rows_' = IF txid \in DOMAIN rows_
                THEN [rows_ EXCEPT ![txid].timestamp = now] ELSE rows_
    /\ last' = [op |-> "reset_timestamp", txid |-> txid, arg |-> 0, ret |-> TRUE]
    /\ UNCHANGED <<last_height_, now, disk, mutex_, threads>>

\* TickSeconds pass
Tick ==
    /\ now + TickSeconds <= StartTime + MaxTicks * TickSeconds
    /\ now' = now + TickSeconds
    /\ last' = [op |-> "tick", txid |-> 0, arg |-> 0, ret |-> TRUE]
    /\ UNCHANGED <<rows_, last_height_, disk, mutex_, threads>>

(***************************************************************************)
(* The snapshot format.  A blob is a sequence of bytes.                    *)
(***************************************************************************)
\* serial_magic 0xfecdb763 and old_serial_magic 0x3eab61c3 as write_4_bytes
\* lays them out (little-endian)
serial_magic == <<99, 183, 205, 254>>
old_serial_magic == <<195, 97, 171, 62>>
serial_tx == 66
\* the size of bc::hash_digest
HashLen == 32

RECURSIVE LittleEndian(_, _)
\* the w low bytes of n >= 0, least significant first
LittleEndian(n, w) ==
    IF w = 0 THEN <<>> ELSE <<n % 256>> \o LittleEndian(n \div 256, w - 1)

write_4_bytes(n) == LittleEndian(n, 4)

\* write_8_bytes of a long long: two's complement for a negative value
write_8_bytes(n) ==
    IF n >= 0 THEN LittleEndian(n, 8)
    ELSE [j \in 1..8 |-> 255 - LittleEndian(-n - 1, 8)[j]]

write_byte(b) == <<b>>

\* a bool written with write_byte
BoolByte(b) == IF b THEN 1 ELSE 0

\* write_hash: the digest numbered h
write_hash(h) == [j \in 1..HashLen |-> IF j = 1 THEN h ELSE 0]

\* write_variable_uint, for counts below 0xfd
write_variable_uint(n) == <<n>>

\* the values of enum TxState by their byte: unconfirmed is 0, confirmed is
\* 1, and a row loaded from any other state byte keeps that value, named
\* here by its number
TxStateNames ==
    <<"unconfirmed", "confirmed", "2", "3", "4", "5", "6", "7", "8", "9",
      "10", "11", "12", "13", "14", "15", "16", "17", "18", "19", "20",
      "21", "22", "23", "24", "25", "26", "27", "28", "29", "30", "31",
      "32", "33", "34", "35", "36", "37", "38", "39", "40", "41", "42",
      "43", "44", "45", "46", "47", "48", "49", "50", "51", "52", "53",
      "54", "55", "56", "57", "58", "59", "60", "61", "62", "63", "64",
      "65", "66", "67", "68", "69", "70", "71", "72", "73", "74", "75",
      "76", "77", "78", "79", "80", "81", "82", "83", "84", "85", "86",
      "87", "88", "89", "90", "91", "92", "93", "94", "95", "96", "97",
      "98", "99", "100", "101", "102", "103", "104", "105", "106", "107",
      "108", "109", "110", "111", "112", "113", "114", "115", "116", "117",
      "118", "119", "120", "121", "122", "123", "124", "125", "126", "127",
      "128", "129", "130", "131", "132", "133", "134", "135", "136", "137",
      "138", "139", "140", "141", "142", "143", "144", "145", "146", "147",
      "148", "149", "150", "151", "152", "153", "154", "155", "156", "157",
      "158", "159", "160", "161", "162", "163", "164", "165", "166", "167",
      "168", "169", "170", "171", "172", "173", "174", "175", "176", "177",
      "178", "179", "180", "181", "182", "183", "184", "185", "186", "187",
      "188", "189", "190", "191", "192", "193", "194", "195", "196", "197",
      "198", "199", "200", "201", "202", "203", "204", "205", "206", "207",
      "208", "209", "210", "211", "212", "213", "214", "215", "216", "217",
      "218", "219", "220", "221", "222", "223", "224", "225", "226", "227",
      "228", "229", "230", "231", "232", "233", "234", "235", "236", "237",
      "238", "239", "240", "241", "242", "243", "244", "245", "246", "247",
      "248", "249", "250", "251", "252", "253", "254", "255">>

\* line 342: static_cast<uint8_t>(row.second.state)
TxStateByte(state) == CHOOSE b \in 0..255 : TxStateNames[b + 1] = state

\* line 393: static_cast<TxState>(serial.read_byte())
TxStateOf(b) == TxStateNames[b + 1]

RECURSIVE Concat(_, _)
\* parts[1] \o parts[2] \o ... \o parts[n]
Concat(parts, n) == IF n = 0 THEN <<>> ELSE Concat(parts, n - 1) \o parts[n]

\* satoshi_save: version, inputs, outputs, locktime
satoshi_save(tx) ==
    LET input(n) == write_hash(tx.inputs[n].previous_output.hash)
                    \o write_4_bytes(tx.inputs[n].previous_output.index)
                    \o write_variable_uint(Len(tx.inputs[n].script))
                    \o tx.inputs[n].script
                    \o <<255, 255, 255, 255>>
        output(n) == write_8_bytes(tx.outputs[n].value)
                     \o write_variable_uint(Len(tx.outputs[n].script))
                     \o tx.outputs[n].script
    IN write_4_bytes(1)
       \o write_variable_uint(Len(tx.inputs))
       \o Concat([n \in 1..Len(tx.inputs) |-> input(n)], Len(tx.inputs))
       \o write_variable_uint(Len(tx.outputs))
       \o Concat([n \in 1..Len(tx.outputs) |-> output(n)], Len(tx.outputs))
       \o write_4_bytes(0)

RECURSIVE SumLen(_, _)
SumLen(items, n) == IF n = 0 THEN 0 ELSE SumLen(items, n - 1) + Len(items[n].script)

\* satoshi_raw_size: the length of the encoding of tx
satoshi_raw_size(tx) ==
    4 + 1 + Len(tx.inputs) * (HashLen + 4 + 1 + 4) + SumLen(tx.inputs, Len(tx.inputs))
      + 1 + Len(tx.outputs) * (8 + 1) + SumLen(tx.outputs, Len(tx.outputs)) + 4

\* a mutation of IsStale: a row is purged at the timeout, not after it
IsStale_Inclusive(row, t) ==
    row.timestamp + unconfirmed_timeout_ <= t /\ row.state = "unconfirmed"

\* lines 328-329: an old unconfirmed transaction
IsStale(row, t) ==
    row.timestamp + unconfirmed_timeout_ < t /\ row.state = "unconfirmed"

\* a mutation of SerialHeight: the block height is written for every row
SerialHeight_BlockHeight(row) == row.block_height

\* lines 335-337: the height field of a record
SerialHeight(row) ==
    IF row.state = "unconfirmed" THEN row.timestamp ELSE row.block_height

\* lines 339-348: the record of the row stored under key
SerialRecord(key, row) ==
    write_byte(serial_tx)
    \o write_hash(key)
    \o satoshi_save(row.tx)
    \o write_byte(TxStateByte(row.state))
    \o write_8_bytes(SerialHeight(row))
    \o write_byte(BoolByte(row.need_check))
    \o write_hash(row.txid)
    \o write_hash(row.ntxid)
    \o write_byte(BoolByte(row.bMalleated))
    \o write_byte(BoolByte(row.bMasterConfirm))

\* TxDatabase::serialize at time t, the rows visited in this order
serialize(rws, order, lastHeight, t) ==
    LET record(n) == IF IsStale(rws[order[n]], t) THEN <<>>
                     ELSE SerialRecord(order[n], rws[order[n]])
    IN serial_magic \o write_8_bytes(lastHeight)
       \o Concat([n \in 1..Len(order) |-> record(n)], Len(order))

Serialize ==
    /\ \E order \in ScanOrders(rows_) :
         disk' = serialize(rows_, order, last_height_, now)
    /\ last' = [op |-> "serialize", txid |-> 0, arg |-> 0, ret |-> TRUE]
    /\ UNCHANGED <<rows_, last_height_, now, mutex_, threads>>

(***************************************************************************)
(* load.  The deserializer is a position in the blob; a read that runs     *)
(* past the end throws end_of_stream.  Reads are modelled as total (a byte *)
(* past the end reads as 0) and the exception by the position: a record    *)
(* has thrown iff the position after it is beyond the end of the blob.     *)
(***************************************************************************)
ByteAt(data, pos) == IF pos <= Len(data) THEN data[pos] ELSE 0

read_bytes(data, pos, w) == [j \in 1..w |-> ByteAt(data, pos + j - 1)]

RECURSIVE FromLittleEndian(_, _, _)
\* the unsigned value of the w bytes at pos
FromLittleEndian(data, pos, w) ==
    IF w = 0 THEN 0
    ELSE ByteAt(data, pos) + 256 * FromLittleEndian(data, pos + 1, w - 1)

read_4_bytes(data, pos) == FromLittleEndian(data, pos, 4)

\* read_8_bytes stored in a long long: two's complement
read_8_bytes(data, pos) ==
    IF ByteAt(data, pos + 7) >= 128
    THEN -FromLittleEndian([j \in 1..8 |-> 255 - ByteAt(data, pos + j - 1)], 1, 8) - 1
    ELSE FromLittleEndian(data, pos, 8)

\* read_hash: the number of the digest
read_hash(data, pos) == ByteAt(data, pos)

\* a byte stored in a bool
ByteBool(b) == b # 0

RECURSIVE LoadInputs(_, _, _)
\* n inputs at pos: [items, next]
LoadInputs(data, pos, n) ==
    IF n = 0 THEN [items |-> <<>>, next |-> pos]
    ELSE LET slen == ByteAt(data, pos + HashLen + 4)
             item == [previous_output |->
                          [hash |-> read_hash(data, pos),
                           index |-> read_4_bytes(data, pos + HashLen)],
                      script |-> read_bytes(data, pos + HashLen + 5, slen)]
             rest == LoadInputs(data, pos + HashLen + 5 + slen + 4, n - 1)
         IN [items |-> <<item>> \o rest.items, next |-> rest.next]

RECURSIVE LoadOutputs(_, _, _)
\* n outputs at pos: [items, next]
LoadOutputs(data, pos, n) ==
    IF n = 0 THEN [items |-> <<>>, next |-> pos]
    ELSE LET slen == ByteAt(data, pos + 8)
             item == [value |-> read_8_bytes(data, pos),
                      script |-> read_bytes(data, pos + 9, slen)]
             rest == LoadOutputs(data, pos + 9 + slen, n - 1)
         IN [items |-> <<item>> \o rest.items, next |-> rest.next]

\* bc::satoshi_load: the transaction encoded at pos
satoshi_load(data, pos) ==
    LET ins == LoadInputs(data, pos + 5, ByteAt(data, pos + 4))
        outs == LoadOutputs(data, ins.next + 1, ByteAt(data, ins.next))
    IN [inputs |-> ins.items, outputs |-> outs.items]

\* lines 393-403: the fields that follow the transaction, which ends
\* before step
LoadRecordAt(data, hash, tx, step, t) ==
    LET state == TxStateOf(ByteAt(data, step))
        block_height == read_8_bytes(data, step + 1)
        timestamp == IF state = "unconfirmed" THEN block_height ELSE t
        need_check == ByteBool(ByteAt(data, step + 9))
        txid == read_hash(data, step + 10)
        ntxid == read_hash(data, step + 10 + HashLen)
        bMalleated == ByteBool(ByteAt(data, step + 10 + 2 * HashLen))
        bMasterConfirm == ByteBool(ByteAt(data, step + 11 + 2 * HashLen))
    IN [key |-> hash,
        row |-> [tx |-> tx, txid |-> txid, ntxid |-> ntxid, state |-> state,
                 block_height |-> block_height, timestamp |-> timestamp,
                 bMalleated |-> bMalleated, bMasterConfirm |-> bMasterConfirm,
                 need_check |-> need_check],
        next |-> step + 12 + 2 * HashLen]

\* lines 388-403: the record whose kind byte is at pos; [key, row, next].
\* (The transaction is parsed once: tx ranges over a one-element set.)
LoadRecord(data, pos, t) ==
    CHOOSE rec \in {LoadRecordAt(data, read_hash(data, pos + 1), tx,
                                 pos + 1 + HashLen + satoshi_raw_size(tx), t) :
                    tx \in {satoshi_load(data, pos + 1 + HashLen)}} : TRUE

ParseError(msg) == [code |-> "ABC_CC_ParseError", msg |-> msg]
Success == [code |-> "ABC_CC_Ok", msg |-> ""]

RECURSIVE LoadRecords(_, _, _, _)
\* lines 383-405: one turn of the loop of load, rec being the record parsed
LoadRecordsStep(data, rec, rows, t) ==
    IF rec.next > Len(data) + 1
    THEN [status |-> ParseError("Truncated transaction database"), rows |-> rows]
    ELSE LoadRecords(data, rec.next, (rec.key :> rec.row) @@ rows, t)

\* lines 381-406: the loop of load; [status, rows]
LoadRecords(data, pos, rows, t) ==
    IF pos = Len(data) + 1 THEN [status |-> Success, rows |-> rows]
    ELSE IF ByteAt(data, pos) # serial_tx
    THEN [status |-> ParseError("Unknown entry in transaction database"),
          rows |-> rows]
    ELSE CHOOSE r \in {LoadRecordsStep(data, rec, rows, t) :
                          rec \in {LoadRecord(data, pos, t)}} : TRUE

\* a mutation of MagicError: the old format is not told apart
MagicError_Unknown(magic) == ParseError("Unknown transaction database header")

\* lines 371-373: the status for a magic other than serial_magic
MagicError(magic) ==
    IF magic = old_serial_magic
    THEN ParseError("Outdated transaction database format")
    ELSE ParseError("Unknown transaction database header")

\* lines 362-411: what load parses; [status, last_height, rows]
LoadParse(data, t) ==
    IF Len(data) < 4
    THEN [status |-> ParseError("Truncated transaction database"),
          last_height |-> 0, rows |-> NoRows]
    ELSE IF read_bytes(data, 1, 4) # serial_magic
    THEN [status |-> MagicError(read_bytes(data, 1, 4)),
          last_height |-> 0, rows |-> NoRows]
    ELSE IF Len(data) < 12
    THEN [status |-> ParseError("Truncated transaction database"),
          last_height |-> 0, rows |-> NoRows]
    ELSE CHOOSE p \in {[status |-> r.status, last_height |-> read_8_bytes(data, 5),
                        rows |-> r.rows] :
                       r \in {LoadRecords(data, 13, NoRows, t)}} : TRUE

\* a mutation of LoadCommit: the parsed rows are stored as they are parsed
LoadCommit_Early(parsed, old) ==
    [last_height |-> old.last_height, rows |-> parsed.rows]

\* lines 412-413, reached only when nothing has returned or thrown;
\* old and the result are [last_height, rows]
LoadCommit(parsed, old) ==
    IF parsed.status = Success
    THEN [last_height |-> parsed.last_height, rows |-> parsed.rows]
    ELSE old

\* TxDatabase::load at time t; [status, last_height, rows]
load(data, old, t) ==
    CHOOSE r \in {[status |-> parsed.status,
                   last_height |-> LoadCommit(parsed, old).last_height,
                   rows |-> LoadCommit(parsed, old).rows] :
                  parsed \in {LoadParse(data, t)}} : TRUE

Load(data) ==
    /\ \E r \in {load(data, [last_height |-> last_height_, rows |-> rows_], now)} :
         /\ rows_' = r.rows
         /\ last_height_' = r.last_height
         /\ last' = [op |-> "load", txid |-> 0, arg |-> Len(data), ret |-> r.status]
    /\ UNCHANGED <<now, disk, mutex_, threads>>

(***************************************************************************)
(* Calls from several threads.  A thread calls an operation (Call), blocks *)
(* in the constructor of the operation's std::lock_guard until mutex_ is   *)
(* free (Acquire), runs the body and releases mutex_ where the lock_guard  *)
(* goes out of scope, on whichever return is taken.  confirmed runs in     *)
(* several steps: the row itself, then one sibling at a time.              *)
(***************************************************************************)
\* a mutation of Locks: foreach_unconfirmed and foreach_forked have no
\* lock_guard
Locks_NotForeach(op) == op \notin {"foreach_unconfirmed", "foreach_forked"}

\* a mutation of Locks: serialize has no lock_guard
Locks_NotSerialize(op) == op # "serialize"

\* "std::lock_guard<std::mutex> lock(mutex_);" opens every public operation
Locks(op) == TRUE

\* the thread has called op and stands before its lock_guard
Call(t, op, txid, arg) ==
    /\ threads[t].pc = "idle"
    /\ threads' = [threads EXCEPT ![t] = [Idle EXCEPT !.pc = "waiting", !.op = op,
                                                      !.txid = txid, !.arg = arg]]
    /\ UNCHANGED <<rows_, last_height_, now, disk, last, mutex_>>

\* the constructor of the lock_guard returns: the thread is in the body
Acquire(t) ==
    /\ threads[t].pc = "waiting"
    /\ IF Locks(threads[t].op)
       THEN mutex_ = 0 /\ mutex_' = t
       ELSE mutex_' = mutex_
    /\ threads' = [threads EXCEPT ![t].pc = "entered", ![t].entry = rows_]
    /\ UNCHANGED <<rows_, last_height_, now, disk, last>>

\* the operation returns: the lock_guard is destroyed
Leave(t) ==
    /\ mutex_' = IF mutex_ = t THEN 0 ELSE mutex_
    /\ threads' = [threads EXCEPT ![t] = Idle]

\* TxDatabase::insert in thread t
ThreadInsert(t) ==
    /\ threads[t].pc = "entered" /\ threads[t].op = "insert"
    /\ LET tx == threads[t].arg
           txid == hash_transaction(tx)
       IN IF InsertIsNew(rows_, txid)
          THEN \E txRows \in ntxidLookupAllResults(rows_, makeNtxid(tx)) :
                 /\ rows_' = InsertRows(rows_, txRows, tx, now)
                 /\ last' = [op |-> "insert", txid |-> txid, arg |-> 0, ret |-> TRUE]
          ELSE /\ rows_' = rows_
               /\ last' = [op |-> "insert", txid |-> txid, arg |-> 0, ret |-> FALSE]
    /\ Leave(t)
    /\ UNCHANGED <<last_height_, now, disk>>

\* lines 516-534 of confirmed in thread t: check_fork, ntxidLookupAll and
\* the row itself
ThreadConfirmedRow(t) ==
    /\ threads[t].pc = "entered" /\ threads[t].op = "confirmed"
    /\ threads[t].txid \in DOMAIN rows_
    /\ \E txRows \in ntxidLookupAllResults(rows_, rows_[threads[t].txid].ntxid) :
         threads' = [threads EXCEPT ![t].pc = "confirmed_loop",
                                    ![t].txRows = txRows, ![t].n = 1]
    /\ rows_' = ConfirmedRows(rows_, <<>>, threads[t].txid, threads[t].arg)
    /\ UNCHANGED <<last_height_, now, disk, last, mutex_>>

\* lines 536-545 of confirmed in thread t: one turn of the loop
ThreadConfirmedSibling(t) ==
    /\ threads[t].pc = "confirmed_loop"
    /\ threads[t].n <= Len(threads[t].txRows)
    /\ rows_' = ConfirmedLoop(rows_, <<threads[t].txRows[threads[t].n]>>, 1,
                              threads[t].txid, threads[t].arg)
    /\ threads' = [threads EXCEPT ![t].n = @ + 1]
    /\ UNCHANGED <<last_height_, now, disk, last, mutex_>>

\* line 546 of confirmed in thread t
ThreadConfirmedReturn(t) ==
    /\ threads[t].pc = "confirmed_loop"
    /\ threads[t].n > Len(threads[t].txRows)
    /\ last' = [op |-> "confirmed", txid |-> threads[t].txid,
                arg |-> threads[t].arg, ret |-> TRUE]
    /\ Leave(t)
    /\ UNCHANGED <<rows_, last_height_, now, disk>>

\* TxDatabase::serialize in thread t
ThreadSerialize(t) ==
    /\ threads[t].pc = "entered" /\ threads[t].op = "serialize"
    /\ \E order \in ScanOrders(rows_) :
         disk' = serialize(rows_, order, last_height_, now)
    /\ last' = [op |-> "serialize", txid |-> 0, arg |-> 0, ret |-> TRUE]
    /\ Leave(t)
    /\ UNCHANGED <<rows_, last_height_, now>>

\* TxDatabase::get_utxos in thread t
ThreadGetUtxos(t) ==
    /\ threads[t].pc = "entered" /\ threads[t].op = "get_utxos"
    /\ \E order \in ScanOrders(rows_) :
         \E r \in {get_utxos(rows_, order, threads[t].arg.addresses,
                             threads[t].arg.filter)} :
            last' = [op |-> "get_utxos", txid |-> 0, arg |-> threads[t].arg,
                     ret |-> [out |-> r.out, overflow |-> r.overflow]]
    /\ Leave(t)
    /\ UNCHANGED <<rows_, last_height_, now, disk>>

\* TxDatabase::load in thread t
ThreadLoad(t) ==
    /\ threads[t].pc = "entered" /\ threads[t].op = "load"
    /\ \E r \in {load(threads[t].arg,
                      [last_height |-> last_height_, rows |-> rows_], now)} :
         /\ rows_' = r.rows
         /\ last_height_' = r.last_height
         /\ last' = [op |-> "load", txid |-> 0, arg |-> Len(threads[t].arg),
                     ret |-> r.status]
    /\ Leave(t)
    /\ UNCHANGED <<now, disk>>

\* what the function f passed to foreach_unconfirmed or foreach_forked does
\* with a txid: it returns, or it calls a public operation of the database
\* it was called from
Callbacks == {"returns", "reenters"}

\* the calls a re-entering callback makes
ReentrantCalls ==
    {[op |-> "insert", arg |-> TxM1],
     [op |-> "foreach_unconfirmed", arg |-> "returns"]}

\* lines 616-617 and 625-626 in thread t: the rows the loop passes to f
ThreadForeach(t) ==
    /\ threads[t].pc = "entered"
    /\ threads[t].op \in {"foreach_unconfirmed", "foreach_forked"}
    /\ \E order \in ScanOrders(rows_) :
         threads' = [threads EXCEPT
                        ![t].pc = "foreach_loop",
                        ![t].txRows = IF threads[t].op = "foreach_unconfirmed"
                                      THEN foreach_unconfirmed(rows_, order)
                                      ELSE foreach_forked(rows_, order),
                        ![t].n = 1]
    /\ UNCHANGED <<rows_, last_height_, now, disk, last, mutex_>>

\* lines 618 and 627 in thread t: f(row.first).  f returns, or f calls a
\* public operation and the thread stands before that operation's
\* lock_guard while it still holds mutex_ (std::mutex is not recursive)
ThreadCallback(t) ==
    /\ threads[t].pc = "foreach_loop"
    /\ threads[t].n <= Len(threads[t].txRows)
    /\ IF threads[t].arg = "returns"
       THEN threads' = [threads EXCEPT ![t].n = @ + 1]
       ELSE \E call \in ReentrantCalls :
               threads' = [threads EXCEPT ![t].pc = "waiting",
                                          ![t].op = call.op,
                                          ![t].arg = call.arg]
    /\ UNCHANGED <<rows_, last_height_, now, disk, last, mutex_>>

\* lines 619 and 628 in thread t: the loop is over
ThreadForeachReturn(t) ==
    /\ threads[t].pc = "foreach_loop"
    /\ threads[t].n > Len(threads[t].txRows)
    /\ last' = [op |-> threads[t].op, txid |-> 0, arg |-> 0,
                ret |-> threads[t].txRows]
    /\ Leave(t)
    /\ UNCHANGED <<rows_, last_height_, now, disk>>

(***************************************************************************)
(* The database driven by insert, confirmed and unconfirmed.               *)
(***************************************************************************)
Heights == 1..MaxHeight

\* the transactions of the malleation cluster
ClusterTxs == {TxM1, TxM2, TxM3, TxM4}
ClusterIds == {hash_transaction(tx) : tx \in ClusterTxs}

Init ==
    /\ rows_ = NoRows
    /\ last_height_ = 0
    /\ now = StartTime
    /\ disk = <<>>
    /\ last = [op |-> "new", txid |-> 0, arg |-> 0, ret |-> TRUE]
    /\ mutex_ = 0
    /\ threads = [t \in Threads |-> Idle]

Next ==
    \/ \E tx \in ClusterTxs : Insert(tx)
    \/ \E txid \in ClusterIds : \E h \in Heights : Confirmed(txid, h)
    \/ \E txid \in ClusterIds : Unconfirmed(txid)

Spec == Init /\ [][Next]_vars

(***************************************************************************)
(* Properties of insert, confirmed and unconfirmed.                        *)
(***************************************************************************)
\* the keys of the rows of an ntxid cluster
Cluster(rws, ntxid) == {k \in DOMAIN rws : rws[k].ntxid = ntxid}

\* C1: whenever two or more rows share an ntxid, every row of that cluster
\* has malleated = true
C1_ClusterMalleated ==
    \A a, b \in DOMAIN rows_ :
        (a # b /\ rows_[a].ntxid = rows_[b].ntxid)
            => (rows_[a].bMalleated /\ rows_[b].bMalleated)

\* a cluster of three rows on which unconfirmed has just acted
C1_Witness ==
    /\ last.op = "unconfirmed"
    /\ Cardinality(Cluster(rows_, rows_[last.txid].ntxid)) = 3

\* C2: at most one row of any ntxid cluster has master_confirm = true
C2_OneMasterPerCluster ==
    \A a, b \in DOMAIN rows_ :
        (a # b /\ rows_[a].ntxid = rows_[b].ntxid)
            => ~(rows_[a].bMasterConfirm /\ rows_[b].bMasterConfirm)

\* C3: every row whose state is confirmed has block_height >= 1
C3_ConfirmedHeightPositive ==
    \A k \in DOMAIN rows_ :
        rows_[k].state = "confirmed" => rows_[k].block_height >= 1

\* C9: insert(tx) returns true and creates a row iff no row of txid(tx)
\* exists; a repeated insert returns false and changes neither a row nor
\* last_height; afterwards exactly one row carries the txid, and
\* txid_exists and ntxid_exists are true for the transaction
C9_InsertOnce ==
    [][\A tx \in ClusterTxs :
         (last'.op = "insert" /\ last'.txid = hash_transaction(tx)) =>
            LET t == hash_transaction(tx)
            IN /\ last'.ret <=> (t \notin DOMAIN rows_)
               /\ last'.ret => (DOMAIN rows_' = DOMAIN rows_ \cup {t} /\ rows_'[t].tx = tx)
               /\ ~last'.ret => (rows_' = rows_ /\ last_height_' = last_height_)
               /\ Cardinality({k \in DOMAIN rows_' : rows_'[k].txid = t}) = 1
               /\ txidExists(rows_', t)
               /\ \A order \in ScanOrders(rows_') :
                     ntxidExists(rows_', order, makeNtxid(tx))]_vars

\* a repeated insert of a transaction whose row is confirmed
C9_Witness ==
    /\ last.op = "insert" /\ last.ret = FALSE
    /\ rows_[last.txid].state = "confirmed"
    /\ rows_[last.txid].bMasterConfirm

\* C10: a new row of a non-empty cluster copies state and block_height from
\* one existing row of the cluster and the whole cluster is malleated; a
\* new row of an empty cluster is unconfirmed at 0 and not malleated; in
\* both cases timestamp = now, need_check and master_confirm are false
C10_InsertInherits ==
    [][\A tx \in ClusterTxs :
         (last'.op = "insert" /\ last'.ret /\ last'.txid = hash_transaction(tx)) =>
            LET t == hash_transaction(tx)
                old == Cluster(rows_, makeNtxid(tx))
                new == rows_'[t]
            IN /\ new.timestamp = now
               /\ ~new.need_check
               /\ ~new.bMasterConfirm
               /\ old = {} => /\ new.state = "unconfirmed"
                              /\ new.block_height = 0
                              /\ ~new.bMalleated
               /\ old # {} => /\ \E s \in old : /\ new.state = rows_[s].state
                                                /\ new.block_height = rows_[s].block_height
                              /\ \A k \in old \cup {t} : rows_'[k].bMalleated]_vars

\* a row inserted into a cluster whose rows differ in state: the new row is
\* confirmed while a sibling is unconfirmed
C10_Witness ==
    /\ last.op = "insert" /\ last.ret
    /\ rows_[last.txid].state = "confirmed"
    /\ \E k \in Cluster(rows_, rows_[last.txid].ntxid) : rows_[k].state = "unconfirmed"

(***************************************************************************)
(* The database driven by insert, confirmed and unconfirmed and queried by *)
(* ntxidLookup and ntxidHeight.                                            *)
(***************************************************************************)
LookupTxs == {TxM1, TxM2, TxM3}
LookupIds == {hash_transaction(tx) : tx \in LookupTxs}
\* the ntxid of the cluster and an ntxid no stored row has
LookupNtxids == {makeNtxid(TxM1), makeNtxid(TxB2)}

NextLookup ==
    \/ \E tx \in LookupTxs : Insert(tx)
    \/ \E txid \in LookupIds : \E h \in Heights : Confirmed(txid, h)
    \/ \E txid \in LookupIds : Unconfirmed(txid)
    \/ \E ntxid \in LookupNtxids : NtxidLookup(ntxid)
    \/ \E ntxid \in LookupNtxids : NtxidHeight(ntxid)

SpecLookup == Init /\ [][NextLookup]_vars

\* the greatest element of a non-empty set of integers
Max(S) == CHOOSE m \in S : \A x \in S : x <= m

\* C11: after confirmed(txid, h) the row is confirmed at h with
\* master_confirm, every other row of its cluster is confirmed at h and
\* malleated, and the row is malleated if it has a sibling; after insert M1,
\* insert M2, confirmed(M1, h) only M1 has master_confirm and ntxid_lookup
\* of the shared ntxid returns M1's transaction for every scan order
C11_ConfirmedPromotes ==
    [][\A txid \in LookupIds :
         (last'.op = "confirmed" /\ last'.txid = txid) =>
            LET h == last'.arg
                c == Cluster(rows_, rows_[txid].ntxid)
                m1 == hash_transaction(TxM1)
                m2 == hash_transaction(TxM2)
            IN /\ rows_'[txid].state = "confirmed"
               /\ rows_'[txid].block_height = h
               /\ rows_'[txid].bMasterConfirm
               /\ \A k \in c \ {txid} : /\ rows_'[k].state = "confirmed"
                                        /\ rows_'[k].block_height = h
                                        /\ rows_'[k].bMalleated
               /\ c # {txid} => rows_'[txid].bMalleated
               /\ (/\ txid = m1
                   /\ DOMAIN rows_ = {m1, m2}
                   /\ \A k \in {m1, m2} : /\ rows_[k].state = "unconfirmed"
                                          /\ ~rows_[k].bMasterConfirm)
                  => /\ ~rows_'[m2].bMasterConfirm
                     /\ rows_'[m2].state = "confirmed" /\ rows_'[m2].block_height = h
                     /\ \A txRows \in ntxidLookupAllResults(rows_', makeNtxid(TxM1)) :
                           ntxidLookup(rows_', txRows) = TxM1]_vars

\* M1 and M2 are stored and confirmed(M1, MaxHeight) has promoted M2, which
\* was never confirmed itself
C11_Witness ==
    /\ last.op = "confirmed" /\ last.txid = hash_transaction(TxM1)
    /\ last.arg = MaxHeight
    /\ DOMAIN rows_ = {hash_transaction(TxM1), hash_transaction(TxM2)}
    /\ rows_[hash_transaction(TxM2)].state = "confirmed"
    /\ rows_[hash_transaction(TxM2)].block_height = MaxHeight
    /\ ~rows_[hash_transaction(TxM2)].bMasterConfirm

\* C12: after unconfirmed(txid) on a confirmed row, every sibling without
\* master_confirm is unconfirmed at -1 and malleated, the row ends with the
\* state and block_height of a sibling that has master_confirm if there is
\* one and unconfirmed at 0 if there is none; on a row that was not
\* confirmed, the row ends unconfirmed at 0 and no sibling changes
C12_UnconfirmedDemotes ==
    [][\A txid \in LookupIds :
         (last'.op = "unconfirmed" /\ last'.txid = txid) =>
            LET sib == Cluster(rows_, rows_[txid].ntxid) \ {txid}
                masters == {k \in sib : rows_[k].bMasterConfirm}
            IN IF rows_[txid].state = "confirmed"
               THEN /\ \A k \in sib \ masters : /\ rows_'[k].state = "unconfirmed"
                                                /\ rows_'[k].block_height = -1
                                                /\ rows_'[k].bMalleated
                    /\ masters # {} =>
                          \E m \in masters :
                             /\ rows_'[txid].state = rows_[m].state
                             /\ rows_'[txid].block_height = rows_[m].block_height
                    /\ masters = {} => /\ rows_'[txid].state = "unconfirmed"
                                       /\ rows_'[txid].block_height = 0
               ELSE /\ rows_'[txid].state = "unconfirmed"
                    /\ rows_'[txid].block_height = 0
                    /\ \A k \in sib : rows_'[k] = rows_[k]]_vars

\* C13: ntxid_lookup returns the tx of a row with master_confirm if the
\* cluster has one, else the tx of a confirmed row if it has one, else the
\* tx of some row of the cluster, and the empty transaction for an empty
\* cluster
C13_LookupPrefersMaster ==
    last.op = "ntxid_lookup" =>
        LET c == Cluster(rows_, last.arg)
            masters == {k \in c : rows_[k].bMasterConfirm}
            conf == {k \in c : rows_[k].state = "confirmed"}
        IN IF c = {} THEN last.ret = NoTx
           ELSE IF masters # {} THEN \E k \in masters : last.ret = rows_[k].tx
           ELSE IF conf # {} THEN \E k \in conf : last.ret = rows_[k].tx
           ELSE \E k \in c : last.ret = rows_[k].tx

\* C14: ntxid_height fails iff no row has the ntxid; otherwise it returns
\* the greatest block_height of the confirmed rows of the cluster, -1 if
\* none is confirmed and the cluster has several rows, 0 if none is
\* confirmed and it has one row; it changes neither rows nor last_height
C14_NtxidHeight ==
    [][last'.op = "ntxid_height" =>
         LET c == Cluster(rows_, last'.arg)
             conf == {k \in c : rows_[k].state = "confirmed"}
         IN /\ rows_' = rows_ /\ last_height_' = last_height_
            /\ (last'.ret.status.code = "ABC_CC_Synchronizing") <=> (c = {})
            /\ (last'.ret.status.code = "ABC_CC_Ok") <=> (c # {})
            /\ c # {} =>
                  last'.ret.result =
                     IF conf # {} THEN Max({rows_[k].block_height : k \in conf})
                     ELSE IF Cardinality(c) > 1 THEN -1 ELSE 0]_vars

\* ntxid_height has returned a block height for a cluster in which another
\* confirmed row is at -1 and a third row is unconfirmed
C14_Witness ==
    /\ last.op = "ntxid_height"
    /\ last.ret.status.code = "ABC_CC_Ok"
    /\ last.ret.result >= 1
    /\ \E k \in Cluster(rows_, last.arg) :
          rows_[k].state = "confirmed" /\ rows_[k].block_height = -1
    /\ \E k \in Cluster(rows_, last.arg) : rows_[k].state = "unconfirmed"

(***************************************************************************)
(* The database with the fork detector: at_height and the foreach calls.   *)
(***************************************************************************)
ForkTxs == {TxA, TxM1, TxM2}
ForkIds == {hash_transaction(tx) : tx \in ForkTxs}

NextFork ==
    \/ \E tx \in ForkTxs : Insert(tx)
    \/ \E txid \in ForkIds : \E h \in Heights : Confirmed(txid, h)
    \/ \E txid \in ForkIds : Unconfirmed(txid)
    \/ \E h \in 1..(MaxHeight + 1) : AtHeight(h)
    \/ ForeachUnconfirmed
    \/ ForeachForked
    \/ \E txid \in ForkIds : ResetTimestamp(txid)
    \/ Clear

SpecFork == Init /\ [][NextFork]_vars

\* the block heights of the confirmed rows strictly below h
HeightsBelow(rws, h) ==
    {rws[k].block_height : k \in {c \in DOMAIN rws :
        rws[c].state = "confirmed" /\ rws[c].block_height < h}}

\* C4: after at_height(h), last_height = h and every confirmed row at the
\* greatest confirmed block_height strictly below h has need_check = true
C4_AtHeightFlags ==
    last.op = "at_height" =>
        /\ last_height_ = last.arg
        /\ \A k \in DOMAIN rows_ :
              (/\ rows_[k].state = "confirmed"
               /\ rows_[k].block_height \in HeightsBelow(rows_, last.arg)
               /\ \A x \in HeightsBelow(rows_, last.arg) : x <= rows_[k].block_height)
                  => rows_[k].need_check

\* C15: last_height is the greatest height passed to at_height since
\* construction or the last clear: every at_height(h) leaves last_height at
\* the greater of h and the last_height before the call, also when h is
\* smaller than an earlier height
C15_LastHeightIsMax ==
    [][last'.op = "at_height" =>
         last_height_' = IF last'.arg > last_height_ THEN last'.arg
                         ELSE last_height_]_vars

\* the members of a row that C23 speaks of
FrameFields(row) ==
    <<row.tx, row.txid, row.ntxid, row.state, row.block_height,
      row.bMalleated, row.bMasterConfirm>>

\* C23: insert, confirmed and unconfirmed leave tx, txid, ntxid, state,
\* block_height, bMalleated and bMasterConfirm of every row whose ntxid is not
\* the ntxid of the argument as they were, leave last_height as it was,
\* remove no row, and add no row but the one insert stores under the txid of
\* its argument
C23_FrameOtherClusters ==
    [][last'.op \in {"insert", "confirmed", "unconfirmed"} =>
         LET ntxid == IF last'.op = "insert"
                      THEN makeNtxid(HashPreimage[last'.txid])
                      ELSE rows_[last'.txid].ntxid
         IN /\ last_height_' = last_height_
            /\ DOMAIN rows_ \subseteq DOMAIN rows_'
            /\ \A k \in DOMAIN rows_' \ DOMAIN rows_ :
                  last'.op = "insert" /\ k = last'.txid
            /\ \A k \in DOMAIN rows_ :
                  rows_[k].ntxid # ntxid
                     => FrameFields(rows_'[k]) = FrameFields(rows_[k])]_vars

\* confirmed(M1) has promoted its sibling M2 while A, of another cluster, is
\* stored and unconfirmed
C23_Witness ==
    /\ last.op = "confirmed" /\ last.txid = hash_transaction(TxM1)
    /\ {hash_transaction(TxA), hash_transaction(TxM2)} \subseteq DOMAIN rows_
    /\ rows_[hash_transaction(TxM2)].state = "confirmed"
    /\ rows_[hash_transaction(TxA)].state = "unconfirmed"
    /\ rows_[hash_transaction(TxA)].ntxid # rows_[hash_transaction(TxM1)].ntxid

(***************************************************************************)
(* The database queried by get_utxos.                                      *)
(***************************************************************************)
UtxoTxs == {TxA, TxM1, TxB2, TxC}
UtxoIds == {hash_transaction(tx) : tx \in UtxoTxs}
AddressSets == {{AddrX}, {AddrX, AddrY}}

NextUtxo ==
    \/ \E tx \in UtxoTxs : Insert(tx)
    \/ \E txid \in UtxoIds : Confirmed(txid, MaxHeight)
    \/ \E txid \in UtxoIds : Unconfirmed(txid)
    \/ \E addresses \in AddressSets : \E filter \in BOOLEAN :
          GetUtxos(addresses, filter)

SpecUtxo == Init /\ [][NextUtxo]_vars

\* the outpoints some stored input references
SpentPoints(rws) ==
    UNION {{rws[k].tx.inputs[n].previous_output : n \in DOMAIN rws[k].tx.inputs} :
           k \in DOMAIN rws}

\* the outpoints two or more stored inputs reference
ContestedPoints(rws) ==
    {p \in SpentPoints(rws) :
        Cardinality(UNION {{<<k, n>> : n \in {m \in DOMAIN rws[k].tx.inputs :
                                        rws[k].tx.inputs[m].previous_output = p}} :
                           k \in DOMAIN rws}) >= 2}

RECURSIVE IsSafeRef(_, _)
\* is_safe without the memo table: true if absent or confirmed, false if an
\* input is contested or has an unsafe source, true otherwise
IsSafeRef(rws, txid) ==
    IF txid \notin DOMAIN rws THEN TRUE
    ELSE IF rws[txid].state = "confirmed" THEN TRUE
    ELSE \A n \in DOMAIN rws[txid].tx.inputs :
            /\ rws[txid].tx.inputs[n].previous_output \notin ContestedPoints(rws)
            /\ IsSafeRef(rws, rws[txid].tx.inputs[n].previous_output.hash)

\* conditions (1) and (2) of an emitted output, and the filter's half of (3)
OutputQualifies(rws, k, i, addresses, filter) ==
    /\ [hash |-> k, index |-> i] \notin SpentPoints(rws)
    /\ extract(rws[k].tx.outputs[i + 1].script) \in addresses
    /\ (filter /\ rws[k].state # "confirmed")
          => \A n \in DOMAIN rws[k].tx.inputs :
                extract(rws[k].tx.inputs[n].script) \in addresses

\* the outputs of the stored rows, as <<key, output index>>
StoredOutputs(rws) ==
    UNION {{<<k, i>> : i \in 0..(Len(rws[k].tx.outputs) - 1)} : k \in DOMAIN rws}

\* the entries of a list
Range(seq) == {seq[j] : j \in DOMAIN seq}

\* C7: get_utxos returns exactly one entry (outpoint, value) for every output
\* that is unspent, pays an address of the caller and whose row passes
\* check, and nothing else; the outpoints returned are disjoint from spends
C7_UtxosExact ==
    last.op = "get_utxos" =>
        LET out == last.ret.out
            expected ==
                {[point |-> [hash |-> o[1], index |-> o[2]],
                  value |-> rows_[o[1]].tx.outputs[o[2] + 1].value] :
                 o \in {q \in StoredOutputs(rows_) :
                          /\ OutputQualifies(rows_, q[1], q[2], last.arg.addresses,
                                             last.arg.filter)
                          /\ IsSafeRef(rows_, q[1])}}
        IN /\ ~last.ret.overflow
           /\ Range(out) = expected
           /\ Len(out) = Cardinality(expected)
           /\ \A j \in DOMAIN out : out[j].point \notin SpentPoints(rows_)

\* get_utxos has returned two entries while a stored output of the caller
\* is spent and a row has failed the filter
C7_Witness ==
    /\ last.op = "get_utxos"
    /\ Len(last.ret.out) = 2
    /\ last.arg.filter
    /\ \E q \in StoredOutputs(rows_) :
          /\ extract(rows_[q[1]].tx.outputs[q[2] + 1].script) \in last.arg.addresses
          /\ [hash |-> q[1], index |-> q[2]] \in SpentPoints(rows_)
    /\ \E q \in StoredOutputs(rows_) :
          /\ IsSafeRef(rows_, q[1])
          /\ OutputQualifies(rows_, q[1], q[2], last.arg.addresses, FALSE)
          /\ ~OutputQualifies(rows_, q[1], q[2], last.arg.addresses, TRUE)

RECURSIVE UnconfirmedAncestry(_, _)
\* S and the stored unconfirmed rows that S spends from, transitively
UnconfirmedAncestry(rws, S) ==
    LET more == {h \in DOMAIN rws :
                    /\ rws[h].state # "confirmed"
                    /\ \E k \in S : \E n \in DOMAIN rws[k].tx.inputs :
                          rws[k].tx.inputs[n].previous_output.hash = h}
    IN IF more \subseteq S THEN S ELSE UnconfirmedAncestry(rws, S \cup more)

\* an unconfirmed row that spends a contested outpoint, directly or through
\* a chain of stored unconfirmed ancestors
Poisoned(rws, k) ==
    /\ k \in DOMAIN rws
    /\ rws[k].state # "confirmed"
    /\ \E a \in UnconfirmedAncestry(rws, {k}) : \E n \in DOMAIN rws[a].tx.inputs :
          rws[a].tx.inputs[n].previous_output \in ContestedPoints(rws)

\* C8: get_utxos never returns an output of a poisoned row, and excludes no
\* otherwise qualifying output of a row that is not poisoned
C8_DoubleSpendPoisoning ==
    last.op = "get_utxos" =>
        LET out == last.ret.out
        IN /\ \A j \in DOMAIN out : ~Poisoned(rows_, out[j].point.hash)
           /\ \A q \in StoredOutputs(rows_) :
                 (/\ ~Poisoned(rows_, q[1])
                  /\ OutputQualifies(rows_, q[1], q[2], last.arg.addresses,
                                     last.arg.filter))
                    => \E j \in DOMAIN out :
                          out[j].point = [hash |-> q[1], index |-> q[2]]

\* A, M1, B2 and C are stored, M1 and B2 both spend A:0, C spends M1:0 and
\* is unconfirmed: get_utxos for X has left out C:0
C8_Witness ==
    /\ last.op = "get_utxos"
    /\ AddrX \in last.arg.addresses /\ ~last.arg.filter
    /\ {hash_transaction(TxA), hash_transaction(TxM1), hash_transaction(TxB2),
        hash_transaction(TxC)} \subseteq DOMAIN rows_
    /\ rows_[hash_transaction(TxM1)].state = "unconfirmed"
    /\ rows_[hash_transaction(TxC)].state = "unconfirmed"
    /\ [hash |-> hash_transaction(TxM1), index |-> 0] \notin ContestedPoints(rows_)
    /\ [hash |-> hash_transaction(TxA), index |-> 0] \in ContestedPoints(rows_)
    /\ \A j \in DOMAIN last.ret.out :
          last.ret.out[j].point.hash # hash_transaction(TxC)

RECURSIVE IsSafeCalls(_, _, _, _, _)
\* the results of calling isSafe on calls[n], calls[n + 1], ... in turn on
\* one TxFilter whose memo table is visited
IsSafeCalls(rws, doubleSpends, calls, n, visited) ==
    IF n > Len(calls) THEN <<>>
    ELSE \* the call's result is bound once
         CHOOSE res \in
             {<<[txid |-> calls[n], ret |-> r.ret, overflow |-> r.overflow]>>
                  \o IsSafeCalls(rws, doubleSpends, calls, n + 1, r.visited) :
              r \in {isSafe(rws, doubleSpends, calls[n], visited, {})}} : TRUE

\* C21: on an acyclic table, isSafe with its memo table returns for every
\* txid the value of the recursive definition without memo, in whatever
\* order earlier calls on the same TxFilter filled the table; the table a
\* get_utxos call builds starts empty and so holds values of the rows stored
\* at that call only
C21_MemoEqualsRecursive ==
    last.op = "get_utxos" =>
        \A order \in ScanOrders(rows_) :
            \A sp \in {SpendsRows([spends |-> {}, doubleSpends |-> {}], rows_, order, 1)} :
                /\ \A calls \in Perms(UtxoIds) :
                      \A res \in {IsSafeCalls(rows_, sp.doubleSpends, calls, 1, NoRows)} :
                          \A j \in DOMAIN res :
                              /\ ~res[j].overflow
                              /\ res[j].ret = IsSafeRef(rows_, res[j].txid)
                /\ \A r \in {get_utxos(rows_, order, last.arg.addresses, last.arg.filter)} :
                      /\ ~r.overflow
                      /\ \A k \in DOMAIN r.visited : r.visited[k] = IsSafeRef(rows_, k)

\* get_utxos has run on a table where C and M1 are unsafe (M1 spends the
\* contested A:0, C spends M1:0), A is safe and confirmed, and its memo table
\* ended with an unsafe entry
C21_Witness ==
    /\ last.op = "get_utxos"
    /\ UtxoIds \subseteq DOMAIN rows_
    /\ rows_[hash_transaction(TxA)].state = "confirmed"
    /\ IsSafeRef(rows_, hash_transaction(TxA))
    /\ ~IsSafeRef(rows_, hash_transaction(TxM1))
    /\ ~IsSafeRef(rows_, hash_transaction(TxC))
    /\ \E order \in ScanOrders(rows_) :
          \E r \in {get_utxos(rows_, order, last.arg.addresses, last.arg.filter)} :
              \E k \in DOMAIN r.visited : ~r.visited[k]

(***************************************************************************)
(* The database saved and loaded: serialize writes the blob to disk, load  *)
(* reads it back, intact or damaged.                                       *)
(***************************************************************************)
SerialTxs == {TxM1, TxM2}
SerialIds == {hash_transaction(tx) : tx \in SerialTxs}

\* the blob with the bytes at pos.. replaced by bytes
Overwrite(data, pos, bytes) ==
    [j \in 1..Len(data) |->
        IF j >= pos /\ j < pos + Len(bytes) THEN bytes[j - pos + 1] ELSE data[j]]

\* the blob cut to its first n bytes
Truncate(data, n) == SubSeq(data, 1, n)

\* the length of the record at pos of an intact blob
RecordLen(data, pos) == LoadRecord(data, pos, 0).next - pos

\* what load can be given when the disk holds data: the blob itself, the
\* blob under another magic, with a record kind overwritten, cut short in
\* the header, inside the first record and inside the last record, and, for
\* a blob of one record, with the state byte set to 2
LoadInputsOf(data) ==
    {data}
    \cup (IF Len(data) >= 12
          THEN {Overwrite(data, 1, old_serial_magic),
                Overwrite(data, 1, <<1, 2, 3, 4>>),
                Truncate(data, 2), Truncate(data, 7)}
          ELSE {})
    \cup (IF Len(data) > 12
          THEN {Overwrite(data, 13, <<67>>),
                Truncate(data, 13 + HashLen + 7),
                Truncate(data, Len(data) - 1),
                Truncate(data, Len(data) - (2 * HashLen + 5))}
          ELSE {})
    \cup (IF Len(data) > 12 /\ 12 + RecordLen(data, 13) < Len(data)
          THEN {Overwrite(data, 13 + RecordLen(data, 13), <<0>>)}
          ELSE {})
    \cup (IF Len(data) > 12 /\ 12 + RecordLen(data, 13) = Len(data)
          THEN {Overwrite(data, Len(data) + 1 - (12 + 2 * HashLen), <<2>>)}
          ELSE {})

NextSerial ==
    \/ \E tx \in SerialTxs : Insert(tx)
    \/ \E txid \in SerialIds : Confirmed(txid, MaxHeight)
    \/ AtHeight(MaxHeight)
    \/ Tick
    \/ Serialize
    \/ \E data \in LoadInputsOf(disk) : Load(data)

SpecSerial == Init /\ [][NextSerial]_vars

\* the times at which a blob written now can be loaded
LoadTimes == {t \in {StartTime + j * TickSeconds : j \in 0..MaxTicks} : t >= now}

\* the keys of the rows serialize writes at time t
Kept(rws, t) ==
    {k \in DOMAIN rws : ~(rws[k].state = "unconfirmed"
                           /\ rws[k].timestamp + unconfirmed_timeout_ < t)}

\* C5 as stated: load(serialize()) succeeds and yields the original
\* last_height and the original rows, equal on every field, minus the
\* unconfirmed rows that were stale at serialize time
C5_RoundTripAllFields ==
    \A order \in ScanOrders(rows_) : \A t \in LoadTimes :
        \A data \in {serialize(rows_, order, last_height_, now)} :
        LET r == load(data, [last_height |-> last_height_, rows |-> rows_], t)
        IN /\ r.status = Success
           /\ r.last_height = last_height_
           /\ r.rows = [k \in Kept(rows_, now) |-> rows_[k]]

\* C5 as amended: load(serialize()) succeeds and yields the original
\* last_height and, for every row that was not stale, a row equal on tx,
\* txid, ntxid, state, need_check, malleated and master_confirm; a
\* confirmed row keeps its block_height and has the time of the load as
\* its timestamp, an unconfirmed row keeps its timestamp and has that
\* timestamp as its block_height
C5_RoundTrip ==
    \A order \in ScanOrders(rows_) : \A t \in LoadTimes :
        \A data \in {serialize(rows_, order, last_height_, now)} :
        LET r == load(data, [last_height |-> last_height_, rows |-> rows_], t)
        IN /\ r.status = Success
           /\ r.last_height = last_height_
           /\ r.rows = [k \in Kept(rows_, now) |->
                          IF rows_[k].state = "unconfirmed"
                          THEN [rows_[k] EXCEPT !.block_height = rows_[k].timestamp]
                          ELSE [rows_[k] EXCEPT !.timestamp = t]]

\* a blob of one record has been loaded after the clock moved on: a row was
\* left out of it as stale, and an unconfirmed row came back
C5_Witness ==
    /\ last.op = "load" /\ last.ret = Success /\ last.arg = Len(disk)
    /\ Len(disk) > 12
    /\ Cardinality(DOMAIN rows_) = 1
    /\ now > StartTime
    /\ \E k \in DOMAIN rows_ :
          /\ rows_[k].state = "unconfirmed"
          /\ rows_[k].bMalleated
          /\ rows_[k].block_height = rows_[k].timestamp
          /\ rows_[k].timestamp > StartTime

\* C16: serialize leaves out exactly the rows that are unconfirmed with
\* timestamp + unconfirmed_timeout < now: the blob parses into the keys of
\* all other rows, the table in memory is unchanged, and an unconfirmed row
\* inserted two timeouts ago is absent, so that a table of such rows loads
\* as the empty table
C16_SerializeOmitsStale ==
    [][last'.op = "serialize" =>
         \E p \in {LoadParse(disk', now)} :
            /\ rows_' = rows_
            /\ p.status = Success
            /\ DOMAIN p.rows =
                  {k \in DOMAIN rows_ :
                     ~(/\ rows_[k].state = "unconfirmed"
                       /\ rows_[k].timestamp + unconfirmed_timeout_ < now)}
            /\ \A k \in DOMAIN rows_ :
                  (/\ rows_[k].state = "unconfirmed"
                   /\ rows_[k].timestamp + 2 * unconfirmed_timeout_ <= now)
                     => k \notin DOMAIN p.rows
            /\ (\A k \in DOMAIN rows_ :
                   /\ rows_[k].state = "unconfirmed"
                   /\ rows_[k].timestamp + 2 * unconfirmed_timeout_ <= now)
                  => p.rows = NoRows]_vars

\* serialize has written one record of a table of two unconfirmed rows: one
\* inserted two timeouts ago and left out, one exactly at its timeout
C16_Witness ==
    /\ last.op = "serialize"
    /\ Len(disk) > 12 /\ Len(disk) = 12 + RecordLen(disk, 13)
    /\ Cardinality(DOMAIN rows_) = 2
    /\ \E k \in DOMAIN rows_ :
          /\ rows_[k].state = "unconfirmed"
          /\ rows_[k].timestamp + 2 * unconfirmed_timeout_ <= now
          /\ k # LoadRecord(disk, 13, now).key
    /\ \E k \in DOMAIN rows_ :
          /\ rows_[k].state = "unconfirmed"
          /\ rows_[k].timestamp + unconfirmed_timeout_ = now
          /\ k = LoadRecord(disk, 13, now).key

\* C6: a load that returns an error leaves rows and last_height as they
\* were; a load that succeeds replaces both by the parsed values
C6_LoadAtomic ==
    [][last'.op = "load" =>
         IF last'.ret # Success
         THEN rows_' = rows_ /\ last_height_' = last_height_
         ELSE \E data \in LoadInputsOf(disk) :
                 /\ Len(data) = last'.arg
                 /\ LoadParse(data, now).status = Success
                 /\ rows_' = LoadParse(data, now).rows
                 /\ last_height_' = LoadParse(data, now).last_height]_vars

\* a load has failed inside the second record of the blob, after the first
\* record was parsed, on a database whose rows differ from that record's
C6_Witness ==
    /\ last.op = "load"
    /\ last.ret = ParseError("Truncated transaction database")
    /\ last.arg > 12 + RecordLen(disk, 13)
    /\ last.arg < Len(disk)
    /\ LoadParse(disk, now).last_height # last_height_
    /\ \E k \in DOMAIN rows_ :
          /\ k = LoadRecord(disk, 13, now).key
          /\ rows_[k].state # LoadRecord(disk, 13, now).row.state

RECURSIVE RecordStartsFrom(_, _)
\* the positions of the record-kind bytes of an intact blob, from pos on
RecordStartsFrom(data, pos) ==
    IF pos > Len(data) THEN {}
    ELSE {pos} \cup RecordStartsFrom(data, pos + RecordLen(data, pos))

RecordStarts(data) == RecordStartsFrom(data, 13)

\* lengths at which the record of length len at pos is cut in its middle:
\* after the kind byte, after the key, inside the transaction, inside the
\* trailing fields and before the last byte
CutsInside(pos, len) ==
    {pos + off : off \in {0, HashLen, HashLen + 7, len - 2 * HashLen - 6, len - 2}}

\* magics that are neither the current nor the old one
OtherMagics ==
    {<<1, 2, 3, 4>>, <<0, 0, 0, 0>>, <<99, 183, 205, 255>>, <<195, 97, 171, 254>>}

\* record-kind bytes other than serial_tx
OtherKinds == {0, 65, 67, 255}

\* C18: for the blob serialize has just written, load reports the blob
\* under the old magic as outdated, under any other magic as an unknown
\* header, with another byte in place of a record kind as an unknown
\* record, cut in the middle of a record as truncated, and succeeds on the
\* blob cut at a record boundary; the four errors are distinct
C18_LoadErrors ==
    (last.op = "serialize" /\ Len(disk) >= 12) =>
        LET status(data) == LoadParse(data, now).status
            Outdated == ParseError("Outdated transaction database format")
            UnknownHeader == ParseError("Unknown transaction database header")
            UnknownRecord == ParseError("Unknown entry in transaction database")
            Truncated == ParseError("Truncated transaction database")
        IN \A starts \in {RecordStarts(disk)} :
           /\ Cardinality({Outdated, UnknownHeader, UnknownRecord, Truncated, Success}) = 5
           /\ status(Overwrite(disk, 1, old_serial_magic)) = Outdated
           /\ \A magic \in OtherMagics :
                 status(Overwrite(disk, 1, magic)) = UnknownHeader
           /\ \A b \in starts : \A kind \in OtherKinds :
                 status(Overwrite(disk, b, <<kind>>)) = UnknownRecord
           /\ \A b \in starts : \A n \in CutsInside(b, RecordLen(disk, b)) :
                 status(Truncate(disk, n)) = Truncated
           /\ \A b \in starts \cup {Len(disk) + 1} :
                 status(Truncate(disk, b - 1)) = Success

\* load has reported an unknown record in the second record of a blob of
\* two records
C18_Witness ==
    /\ last.op = "load"
    /\ last.ret = ParseError("Unknown entry in transaction database")
    /\ last.arg = Len(disk)
    /\ Cardinality(RecordStarts(disk)) = 2
    /\ LoadParse(disk, now).status = Success

(***************************************************************************)
(* The database loaded from blobs that were not written by serialize: a    *)
(* well-formed blob whose first record is stored under another key.        *)
(***************************************************************************)
ForgedTxs == {TxM1, TxC}
ForgedIds == {hash_transaction(tx) : tx \in ForgedTxs}

\* what load can be given when the disk holds data: the blob itself and the
\* blob with the key of its first record replaced by another digest
ForgedInputsOf(data) ==
    {data}
    \cup (IF Len(data) > 12
          THEN {Overwrite(data, 14, write_hash(k)) : k \in ForgedIds}
          ELSE {})

NextForged ==
    \/ \E tx \in ForgedTxs : Insert(tx)
    \/ \E txid \in ForgedIds : Confirmed(txid, MaxHeight)
    \/ Serialize
    \/ \E data \in ForgedInputsOf(disk) : Load(data)
    \/ \E addresses \in AddressSets : \E filter \in BOOLEAN :
          GetUtxos(addresses, filter)

SpecForged == Init /\ [][NextForged]_vars

\* C19: every row stored under key k has txid(tx) = k and txid = k, also
\* after a successful load of a well-formed blob
C19_KeyIsTxid ==
    \A k \in DOMAIN rows_ :
        /\ hash_transaction(rows_[k].tx) = k
        /\ rows_[k].txid = k

\* C20: every get_utxos call terminates: the recursion of is_safe ends on
\* every table the database can hold, also on a loaded table in which an
\* unconfirmed row's input leads back to the row
C20_GetUtxosTerminates ==
    last.op = "get_utxos" => ~last.ret.overflow

(***************************************************************************)
(* The database called from two threads.                                   *)
(***************************************************************************)
ThreadTxs == {TxM1, TxM2}
ThreadIds == {hash_transaction(tx) : tx \in ThreadTxs}

\* what a thread can pass to load when the disk holds data: the blob itself
\* and the blob without its last byte
ThreadLoadInputsOf(data) == {data, Truncate(data, Len(data) - 1)}

NextThreads ==
    \E t \in Threads :
        \/ \E tx \in ThreadTxs : Call(t, "insert", 0, tx)
        \/ \E txid \in ThreadIds : Call(t, "confirmed", txid, MaxHeight)
        \/ Call(t, "serialize", 0, 0)
        \/ Call(t, "get_utxos", 0, [addresses |-> {AddrX}, filter |-> FALSE])
        \/ \E data \in ThreadLoadInputsOf(disk) : Call(t, "load", 0, data)
        \/ Acquire(t)
        \/ ThreadInsert(t)
        \/ ThreadConfirmedRow(t)
        \/ ThreadConfirmedSibling(t)
        \/ ThreadConfirmedReturn(t)
        \/ ThreadSerialize(t)
        \/ ThreadGetUtxos(t)
        \/ ThreadLoad(t)

SpecThreads == Init /\ [][NextThreads]_vars

\* the thread is in the body of an operation
Inside(thr, t) == thr[t].pc \notin {"idle", "waiting"}

\* a cluster in which one row is confirmed and another is not
PartlyPromoted(rws) ==
    \E a, b \in DOMAIN rws :
        /\ rws[a].ntxid = rws[b].ntxid
        /\ rws[a].state = "confirmed" /\ rws[b].state # "confirmed"

\* C17: a thread holds the mutex exactly while it is in the body of an
\* operation, whichever return it takes, so at most one thread is in a body;
\* no step of another thread changes rows or last_height while a thread is
\* in a body; confirmed leaves the rows that the whole operation makes of
\* the rows at its entry, serialize writes the rows as they were at its
\* entry, never a cluster that is only partly promoted, and get_utxos
\* returns the outputs of the rows as they were at its entry
C17_MutexLinearizable ==
    [][/\ \A t \in Threads : Inside(threads', t) <=> (mutex_' = t)
       /\ \A t, u \in Threads : (Inside(threads', t) /\ Inside(threads', u)) => t = u
       /\ \A t \in Threads :
             (Inside(threads, t) /\ threads'[t] = threads[t])
                => (rows_' = rows_ /\ last_height_' = last_height_)
       /\ \A t \in Threads :
             (threads[t].pc = "confirmed_loop" /\ threads'[t].pc = "idle")
                => rows_' = ConfirmedRows(threads[t].entry, threads[t].txRows,
                                          threads[t].txid, threads[t].arg)
       /\ \A t \in Threads :
             (threads[t].op = "serialize" /\ Inside(threads, t)
              /\ threads'[t].pc = "idle")
                => /\ \E order \in ScanOrders(threads[t].entry) :
                         disk' = serialize(threads[t].entry, order, last_height_, now)
                   /\ ~PartlyPromoted(LoadParse(disk', now).rows)
       /\ \A t \in Threads :
             (threads[t].op = "get_utxos" /\ Inside(threads, t)
              /\ threads'[t].pc = "idle")
                => \E order \in ScanOrders(threads[t].entry) :
                      last'.ret.out = get_utxos(threads[t].entry, order,
                                                threads[t].arg.addresses,
                                                threads[t].arg.filter).out]_vars

\* a thread waits for the mutex to serialize while the other thread is in
\* the sibling loop of confirmed, with a sibling not yet promoted
C17_Witness ==
    \E t, u \in Threads :
        /\ threads[t].pc = "confirmed_loop"
        /\ threads[t].n <= Len(threads[t].txRows)
        /\ PartlyPromoted(rows_)
        /\ threads[u].pc = "waiting" /\ threads[u].op = "serialize"

(***************************************************************************)
(* Threads that call foreach_unconfirmed and foreach_forked with callbacks *)
(* that return or re-enter the database.  need_check is set only in rows   *)
(* that load reads from a blob saying so.                                  *)
(***************************************************************************)
CallbackTxs == {TxM1}

\* the blob with the first record's state overwritten to confirmed and its
\* need_check byte to true
Flagged(data) ==
    CHOOSE d \in {Overwrite(Overwrite(data, step, <<TxStateByte("confirmed")>>),
                            step + 9, <<BoolByte(TRUE)>>) :
                  step \in {LoadRecord(data, 13, 0).next - (12 + 2 * HashLen)}} : TRUE

\* what a thread can pass to load when the disk holds data
CallbackLoadInputsOf(data) ==
    {data} \cup (IF Len(data) > 12 THEN {Flagged(data)} ELSE {})

NextCallbacks ==
    \E t \in Threads :
        \/ \E tx \in CallbackTxs : Call(t, "insert", 0, tx)
        \/ Call(t, "serialize", 0, 0)
        \/ \E data \in CallbackLoadInputsOf(disk) : Call(t, "load", 0, data)
        \/ \E f \in Callbacks : Call(t, "foreach_unconfirmed", 0, f)
        \/ \E f \in Callbacks : Call(t, "foreach_forked", 0, f)
        \/ Acquire(t)
        \/ ThreadInsert(t)
        \/ ThreadSerialize(t)
        \/ ThreadLoad(t)
        \/ ThreadForeach(t)
        \/ ThreadCallback(t)
        \/ ThreadForeachReturn(t)

\* a thread in the body of an operation keeps running and a callback that
\* does not re-enter returns; a thread blocked in a lock_guard constructor
\* gets the mutex if the mutex stays free.  std::mutex promises no order
\* among the threads that want it, so nothing more is assumed of Acquire
CallbacksFairness ==
    \A t \in Threads :
        /\ WF_vars(ThreadInsert(t) \/ ThreadSerialize(t) \/ ThreadLoad(t)
                   \/ ThreadForeach(t) \/ ThreadCallback(t)
                   \/ ThreadForeachReturn(t))
        /\ WF_vars(Acquire(t))

SpecCallbacks == Init /\ [][NextCallbacks]_vars /\ CallbacksFairness

\* the thread waits for the mutex it holds itself
SelfBlocked(thr, mtx, t) == thr[t].pc = "waiting" /\ mtx = t

\* C22 as stated: the callbacks of foreach_unconfirmed and foreach_forked
\* run while the mutex is held; a thread whose callback has called a public
\* operation of the same database waits for ever, holding the mutex, and no
\* thread enters the database any more; as long as no callback has
\* re-entered, every operation a thread is in returns and releases the
\* mutex, and every thread that waits for the mutex gets it
C22_CallbacksUnderLock ==
    /\ [](\A t \in Threads : threads[t].pc = "foreach_loop" => mutex_ = t)
    /\ [][\A t \in Threads :
             SelfBlocked(threads, mutex_, t)
                => /\ threads'[t] = threads[t]
                   /\ mutex_' = t
                   /\ rows_' = rows_ /\ last_height_' = last_height_
                   /\ \A u \in Threads : Inside(threads', u) => Inside(threads, u)]_vars
    /\ \A t \in Threads :
          Inside(threads, t)
             ~> (threads[t].pc = "idle"
                 \/ \E u \in Threads : SelfBlocked(threads, mutex_, u))
    /\ \A t \in Threads :
          (threads[t].pc = "waiting")
             ~> (Inside(threads, t)
                 \/ \E u \in Threads : SelfBlocked(threads, mutex_, u))

\* C22 as amended: the callbacks of foreach_unconfirmed and foreach_forked
\* run while the mutex is held; a thread whose callback has called a public
\* operation of the same database waits for ever, holding the mutex, and no
\* thread enters the database any more; as long as no callback has
\* re-entered, every operation a thread is in returns and releases the
\* mutex, and a thread waits for the mutex for ever only if other threads
\* take the mutex again and again
C22_CallbacksReleaseLock ==
    /\ [](\A t \in Threads : threads[t].pc = "foreach_loop" => mutex_ = t)
    /\ [][\A t \in Threads :
             SelfBlocked(threads, mutex_, t)
                => /\ threads'[t] = threads[t]
                   /\ mutex_' = t
                   /\ rows_' = rows_ /\ last_height_' = last_height_
                   /\ \A u \in Threads : Inside(threads', u) => Inside(threads, u)]_vars
    /\ \A t \in Threads :
          Inside(threads, t)
             ~> (threads[t].pc = "idle"
                 \/ \E u \in Threads : SelfBlocked(threads, mutex_, u))
    /\ \A t \in Threads :
          <>[](threads[t].pc = "waiting")
             => \/ <>(\E u \in Threads : SelfBlocked(threads, mutex_, u))
                \/ []<><<\E u \in Threads \ {t} : Acquire(u)>>_vars

\* the callback of foreach_forked, called for a row with need_check, has
\* called a public operation: its thread waits for the mutex it holds and
\* the other thread waits for the mutex too
C22_Witness ==
    \E t, u \in Threads :
        /\ SelfBlocked(threads, mutex_, t)
        /\ threads[t].n <= Len(threads[t].txRows)
        /\ rows_[threads[t].txRows[threads[t].n]].need_check
        /\ u # t
        /\ threads[u].pc = "waiting"

(***************************************************************************)
(* The states of the rows of a cluster.                                    *)
(***************************************************************************)
\* C24: in every state reached by insert, confirmed and unconfirmed, the
\* rows of an ntxid cluster have one state: all confirmed or all unconfirmed
C24_ClusterOneState ==
    \A a, b \in DOMAIN rows_ :
        rows_[a].ntxid = rows_[b].ntxid => rows_[a].state = rows_[b].state

\* the rows of the cluster have one state
OneState(rws, ntxid) ==
    \A a, b \in Cluster(rws, ntxid) : rws[a].state = rws[b].state

\* C24 as amended: every cluster of at most two rows has one state; a
\* cluster whose rows have one state gets rows of different states only by
\* unconfirmed with a txid of that cluster when it has three or more rows;
\* confirmed leaves every row of its argument's cluster confirmed
C24_SmallClusterOneState ==
    /\ [](\A k \in DOMAIN rows_ :
             Cardinality(Cluster(rows_, rows_[k].ntxid)) <= 2
                => OneState(rows_, rows_[k].ntxid))
    /\ [][/\ \A k \in DOMAIN rows_ :
                (OneState(rows_, rows_[k].ntxid) /\ ~OneState(rows_', rows_[k].ntxid))
                   => /\ last'.op = "unconfirmed"
                      /\ rows_[last'.txid].ntxid = rows_[k].ntxid
                      /\ Cardinality(Cluster(rows_, rows_[k].ntxid)) >= 3
          /\ last'.op = "confirmed"
                => \A k \in Cluster(rows_', rows_'[last'.txid].ntxid) :
                      rows_'[k].state = "confirmed"]_vars

\* unconfirmed has acted on a cluster of three rows: a row with
\* master_confirm is confirmed and a sibling is unconfirmed
C24_Witness ==
    /\ last.op = "unconfirmed"
    /\ Cardinality(Cluster(rows_, rows_[last.txid].ntxid)) = 3
    /\ \E a, b \in Cluster(rows_, rows_[last.txid].ntxid) :
          /\ rows_[a].bMasterConfirm /\ rows_[a].state = "confirmed"
          /\ rows_[b].state = "unconfirmed"

(***************************************************************************)
(* get_utxos on a table with a malleation cluster: M1, M2 and M3 are       *)
(* siblings and C spends M1:0.                                             *)
(***************************************************************************)
SiblingTxs == {TxM1, TxM2, TxM3, TxC}
SiblingIds == {hash_transaction(tx) : tx \in SiblingTxs}

NextSiblings ==
    \/ \E tx \in SiblingTxs : Insert(tx)
    \/ \E txid \in SiblingIds : Confirmed(txid, MaxHeight)
    \/ \E txid \in SiblingIds : Unconfirmed(txid)
    \/ \E addresses \in AddressSets : \E filter \in BOOLEAN :
          GetUtxos(addresses, filter)

SpecSiblings == Init /\ [][NextSiblings]_vars

\* C25: get_utxos never returns output i of two different rows that share an
\* ntxid, and returns output i of no row of a cluster once a stored
\* transaction spends output i of a row of that cluster
C25_OncePerCluster ==
    last.op = "get_utxos" =>
        LET out == last.ret.out
        IN /\ \A j, k \in DOMAIN out :
                 (/\ out[j].point.hash # out[k].point.hash
                  /\ rows_[out[j].point.hash].ntxid = rows_[out[k].point.hash].ntxid)
                    => out[j].point.index # out[k].point.index
           /\ \A j \in DOMAIN out :
                 \A t \in Cluster(rows_, rows_[out[j].point.hash].ntxid) :
                    [hash |-> t, index |-> out[j].point.index] \notin SpentPoints(rows_)

\* C25 as amended: get_utxos returns no outpoint twice and no outpoint that
\* a stored transaction spends; of a cluster of two or more rows it returns
\* outputs of confirmed rows only, and of every confirmed row it returns
\* each unspent output that pays the caller, whether or not output i of a
\* sibling is returned or spent
C25_OncePerRow ==
    last.op = "get_utxos" =>
        LET out == last.ret.out
        IN /\ \A j, k \in DOMAIN out : out[j].point = out[k].point => j = k
           /\ \A j \in DOMAIN out : out[j].point \notin SpentPoints(rows_)
           /\ \A j \in DOMAIN out :
                 Cardinality(Cluster(rows_, rows_[out[j].point.hash].ntxid)) >= 2
                    => rows_[out[j].point.hash].state = "confirmed"
           /\ \A q \in StoredOutputs(rows_) :
                 (/\ rows_[q[1]].state = "confirmed"
                  /\ [hash |-> q[1], index |-> q[2]] \notin SpentPoints(rows_)
                  /\ extract(rows_[q[1]].tx.outputs[q[2] + 1].script) \in last.arg.addresses)
                    => \E j \in DOMAIN out :
                          out[j].point = [hash |-> q[1], index |-> q[2]]

\* M1 and M2 are confirmed siblings and C spends M1:0: get_utxos has
\* returned M2:0 and not M1:0
C25_Witness ==
    /\ last.op = "get_utxos"
    /\ {hash_transaction(TxM1), hash_transaction(TxM2), hash_transaction(TxC)}
          \subseteq DOMAIN rows_
    /\ rows_[hash_transaction(TxM1)].state = "confirmed"
    /\ rows_[hash_transaction(TxM2)].state = "confirmed"
    /\ \E j \in DOMAIN last.ret.out :
          last.ret.out[j].point = [hash |-> hash_transaction(TxM2), index |-> 0]
    /\ \A j \in DOMAIN last.ret.out :
          last.ret.out[j].point # [hash |-> hash_transaction(TxM1), index |-> 0]

=============================================================================
